---- MODULE Spec2Model ----
(***************************************************************************)
(* Model of src/model/attention.py: the attention blocks of the            *)
(* entity-aware relation classifier.                                       *)
(*                                                                         *)
(* Tensors are nested sequences indexed from 1 (the code indexes from 0).  *)
(* Input and parameter values are integers.  exp() is a fixed-point table  *)
(* in units of 1/1000 and attention weights are fixed-point numbers in     *)
(* units of FixOne = 1e-6, the tolerance the specification tests against.  *)
(***************************************************************************)
EXTENDS Integers, Sequences, FiniteSets, TLC

VARIABLES pc, args, ret, store, calls

vars == <<pc, args, ret, store, calls>>

(***************************************************************************)
(* Bounds of the model.                                                    *)
(***************************************************************************)
MaxN == 2        \* batch sizes 1..MaxN
MaxT == 2        \* query and key lengths 1..MaxT
Chan == 2        \* channel count of the inputs of the attention blocks
MaxClip == 3     \* clip_k in 0..MaxClip for the table construction
MaxSeqLen == 7   \* seq_len in 1..MaxSeqLen for the table construction
MaxChan == 3     \* channel counts and num_units 1..MaxChan of the graph calls
MaxCalls == 2    \* calls made on one graph

(***************************************************************************)
(* Arithmetic helpers.                                                     *)
(***************************************************************************)
Min(a, b) == IF a < b THEN a ELSE b
Max(a, b) == IF a > b THEN a ELSE b
Abs(x) == IF x < 0 THEN -x ELSE x
Sign(x) == IF x > 0 THEN 1 ELSE IF x < 0 THEN -1 ELSE 0

RECURSIVE SumF(_, _)
\* tf.reduce_sum over a vector f of length n
SumF(f, n) == IF n = 0 THEN 0 ELSE f[n] + SumF(f, n - 1)

RECURSIVE MaxF(_, _)
\* maximum of the first n >= 1 entries of f
MaxF(f, n) == IF n = 1 THEN f[1] ELSE Max(f[n], MaxF(f, n - 1))

ReduceSum(v) == SumF(v, Len(v))
Dot(a, b) == SumF([c \in 1..Len(a) |-> a[c] * b[c]], Len(a))
Relu(x) == IF x > 0 THEN x ELSE 0

\* shape accessors of a rank-3 tensor (N, T, C)
DimN(X) == Len(X)
DimT(X) == Len(X[1])
DimC(X) == Len(X[1][1])

(***************************************************************************)
(* The large negative constant -2**32+1 written over masked scores.  TLC   *)
(* integers are 32 bits wide, so the model keeps the constant at           *)
(* -2**30+1: like the original it lies below every score the bounded       *)
(* inputs produce by far more than the float32 exp() underflow distance.   *)
(***************************************************************************)
Paddings == -(2^30) + 1

\* the fixed-point 1.0 of the attention weights
FixOne == 10 ^ 6

\* 1000 * exp(-1/sqrt(dh)): one unit step of a raw score scaled by dh ** 0.5
ExpStep(dh) == IF dh = 1 THEN 368 ELSE IF dh = 2 THEN 493
               ELSE IF dh = 3 THEN 561 ELSE 607

RECURSIVE ExpFix(_, _)
\* exp(-d / sqrt(dh)) in units of 1/1000, d >= 0 the distance to the row
\* maximum.  float32 exp() is 0 below about -104 and positive above.
ExpFix(d, dh) ==
    IF d = 0 THEN 1000
    ELSE IF d >= 104 * dh THEN 0
    ELSE Max(1, (ExpFix(d - 1, dh) * ExpStep(dh)) \div 1000)

(***************************************************************************)
(* Broadcasting of the last axis by tf.add / += / *= : two axis lengths    *)
(* are compatible when they are equal or one of them is 1.                 *)
(***************************************************************************)
BroadcastOk(a, b) == a = b \/ a = 1 \/ b = 1
BroadcastDim(a, b) == Max(a, b)

(***************************************************************************)
(* tf.layers.dense(x, units, activation=relu): x is (N, T, Cin), the       *)
(* kernel W is (Cin, units), the bias b is (units).                        *)
(***************************************************************************)
Dense(X, W, b) ==
    [n \in 1..DimN(X) |-> [t \in 1..DimT(X) |-> [u \in 1..Len(b) |->
        Relu(SumF([c \in 1..DimC(X) |-> X[n][t][c] * W[c][u]], DimC(X)) + b[u])]]]

\* tf.layers.conv1d(kernel_size=1, activation=None): the same map without relu
Conv1(X, W, b) ==
    [n \in 1..DimN(X) |-> [t \in 1..DimT(X) |-> [u \in 1..Len(b) |->
        SumF([c \in 1..DimC(X) |-> X[n][t][c] * W[c][u]], DimC(X)) + b[u]]]]

(***************************************************************************)
(* tf.concat(tf.split(X, h, axis=2), axis=0): (N, T, C) -> (h*N, T, C/h).  *)
(* Chunk g (0-based) of batch element n lands at stacked index g*N + n.    *)
(***************************************************************************)
\* faulty variant: the chunks of one batch element are stacked next to each
\* other, (batch n, head g) at index n*h + g
SplitHeadsBad(X, h) ==
    LET dh == DimC(X) \div h
    IN  [s \in 1..(h * DimN(X)) |-> [t \in 1..DimT(X) |-> [c \in 1..dh |->
            X[((s - 1) \div h) + 1][t][((s - 1) % h) * dh + c]]]]

SplitHeads(X, h) ==
    LET N == DimN(X)
        dh == DimC(X) \div h
    IN  [s \in 1..(h * N) |-> [t \in 1..DimT(X) |-> [c \in 1..dh |->
            X[((s - 1) % N) + 1][t][((s - 1) \div N) * dh + c]]]]

\* tf.concat(tf.split(Y, h, axis=0), axis=2): (h*N, T, d) -> (N, T, h*d)
RestoreShape(Y, h) ==
    LET N == Len(Y) \div h
        dh == Len(Y[1][1])
    IN  [n \in 1..N |-> [t \in 1..Len(Y[1]) |-> [c \in 1..(h * dh) |->
            Y[((c - 1) \div dh) * N + n][t][((c - 1) % dh) + 1]]]]

\* tf.sign(tf.abs(tf.reduce_sum(X, axis=-1))): (N, T, C) -> (N, T) of 0/1
PadMask(X) ==
    [n \in 1..DimN(X) |-> [t \in 1..DimT(X) |-> Sign(Abs(ReduceSum(X[n][t])))]]

\* tf.tile(M, [h, 1]): (N, T) -> (h*N, T); stacked index s reads row s mod N
TileHeads(M, h) ==
    [s \in 1..(h * Len(M)) |-> M[((s - 1) % Len(M)) + 1]]

\* key_masks: tile over heads, then expand over the T_q query positions
KeyMasks(keys, h, Tq) ==
    LET km == TileHeads(PadMask(keys), h)
    IN  [s \in 1..Len(km) |-> [i \in 1..Tq |-> km[s]]]

\* faulty variant: the query mask is taken from the keys
QueryMasksBad(queries, keys, h) ==
    LET qm == TileHeads(PadMask(keys), h)
    IN  [s \in 1..Len(qm) |-> [i \in 1..DimT(queries) |->
            [j \in 1..DimT(keys) |-> qm[s][Min(i, DimT(keys))]]]]

\* query_masks: tile over heads, then expand over the T_k key positions
QueryMasks(queries, keys, h) ==
    LET qm == TileHeads(PadMask(queries), h)
    IN  [s \in 1..Len(qm) |-> [i \in 1..DimT(queries) |->
            [j \in 1..DimT(keys) |-> qm[s][i]]]]

\* tf.where(tf.equal(masks, 0), paddings, outputs)
WhereMasked(masks, outputs) ==
    [s \in 1..Len(outputs) |-> [i \in 1..Len(outputs[s]) |->
        [j \in 1..Len(outputs[s][i]) |->
            IF masks[s][i][j] = 0 THEN Paddings ELSE outputs[s][i][j]]]]

\* LinearOperatorTriL(ones (T_q, T_k)).to_dense(), tiled over the h*N axis
TrilMasks(hN, Tq, Tk) ==
    [s \in 1..hN |-> [i \in 1..Tq |-> [j \in 1..Tk |-> IF j <= i THEN 1 ELSE 0]]]

(***************************************************************************)
(* tf.nn.softmax over the last axis of scores that were divided by         *)
(* dh ** 0.5 before masking: exp(x - max) / sum(exp(x - max)), in units    *)
(* of FixOne, rounded down.                                                *)
(***************************************************************************)
\* faulty variant: the exponentials are returned without the division by their sum
SoftmaxRowBad(row, dh) ==
    LET m == MaxF(row, Len(row))
    IN  [j \in 1..Len(row) |-> ExpFix(m - row[j], dh) * 1000]

SoftmaxRow(row, dh) ==
    LET m == MaxF(row, Len(row))
        e == [j \in 1..Len(row) |-> ExpFix(m - row[j], dh)]
        z == ReduceSum(e)
    IN  [j \in 1..Len(row) |-> (e[j] * FixOne) \div z]

Softmax(outputs, dh) ==
    [s \in 1..Len(outputs) |-> [i \in 1..Len(outputs[s]) |->
        SoftmaxRow(outputs[s][i], dh)]]

\* outputs *= query_masks
MulMasks(outputs, masks) ==
    [s \in 1..Len(outputs) |-> [i \in 1..Len(outputs[s]) |->
        [j \in 1..Len(outputs[s][i]) |-> outputs[s][i][j] * masks[s][i][j]]]]

\* tf.matmul(Q_, tf.transpose(K_, [0, 2, 1])): (h*N, T_q, T_k)
MatmulQK(Q_, K_) ==
    [s \in 1..Len(Q_) |-> [i \in 1..Len(Q_[s]) |-> [j \in 1..Len(K_[s]) |->
        Dot(Q_[s][i], K_[s][j])]]]

\* tf.matmul(outputs, V_): (h*N, T_q, C/h)
MatmulV(outputs, V_) ==
    [s \in 1..Len(outputs) |-> [i \in 1..Len(outputs[s]) |->
        [c \in 1..Len(V_[s][1]) |->
            SumF([j \in 1..Len(V_[s]) |-> outputs[s][i][j] * V_[s][j][c]],
                 Len(V_[s]))]]]

(***************************************************************************)
(* The relative-distance table of relative_multihead_attention.            *)
(***************************************************************************)
\* shift(arr, n): numpy slice assignments on a row of length L
\*   n < 0: arr[:n] = arr[-n:]; arr[n:] = 2*clip_k+1
\*   n > 0: arr[n:] = arr[:-n]; arr[:n] = 1
\* faulty variant: the vacated right end is filled with 2*clip_k
shiftBad(arr, n, clip_k) ==
    LET L == Len(arr)
    IN  IF n < 0
        THEN [c \in 1..L |-> IF c <= L + n THEN arr[c - n] ELSE 2 * clip_k]
        ELSE IF n > 0
        THEN [c \in 1..L |-> IF c > n THEN arr[c - n] ELSE 1]
        ELSE arr

shift(arr, n, clip_k) ==
    LET L == Len(arr)
    IN  IF n < 0
        THEN [c \in 1..L |-> IF c <= L + n THEN arr[c - n] ELSE 2 * clip_k + 1]
        ELSE IF n > 0
        THEN [c \in 1..L |-> IF c > n THEN arr[c - n] ELSE 1]
        ELSE arr

\* the number of elements of arr[lo:hi] on a row of length L, 0 <= lo, 0 <= hi
SliceLen(L, lo, hi) == Max(Min(hi, L) - Min(lo, L), 0)

\* numpy slice assignment arr[lo:hi] = values: the values must have the
\* length of the slice or length 1 (broadcast), otherwise ValueError
AssignOk(slice_len, values_len) == values_len = slice_len \/ values_len = 1

\* len(np.arange(lo, hi))
ArangeLen(lo, hi) == Max(hi - lo, 0)

\* faulty variant: a ramp longer than the row is cut to the row
DistBaseOkBad(clip_k, seq_len) ==
    AssignOk(SliceLen(seq_len, 0, 2 * clip_k),
             Min(ArangeLen(1, 2 * clip_k + 1), seq_len))

\* dist = np.full(seq_len, 2*clip_k+1); dist[0:2*clip_k] = np.arange(1, 2*clip_k+1)
\* The assignment of 2*clip_k values into a shorter slice raises ValueError.
DistBaseOk(clip_k, seq_len) ==
    AssignOk(SliceLen(seq_len, 0, 2 * clip_k), ArangeLen(1, 2 * clip_k + 1))

\* faulty variant: the ramp is np.arange(0, 2*clip_k)
DistBaseBad(clip_k, seq_len) ==
    [c \in 1..seq_len |-> IF c <= 2 * clip_k THEN c - 1 ELSE 2 * clip_k + 1]

DistBase(clip_k, seq_len) ==
    [c \in 1..seq_len |-> IF c <= 2 * clip_k THEN c ELSE 2 * clip_k + 1]

\* np.array([shift(dist.copy(), i) for i in range(-clip_k, seq_len-clip_k)])
DistTable(clip_k, seq_len) ==
    [r \in 1..seq_len |->
        shift(DistBase(clip_k, seq_len), (r - 1) - clip_k, clip_k)]

\* dist[:tf.shape(Q_)[1], :tf.shape(Q_)[1]]: both axes are cut at T_q
DistSlice(dist, Tq, Tk) ==
    [r \in 1..Min(Tq, Len(dist)) |-> [c \in 1..Min(Tq, Len(dist)) |-> dist[r][c]]]

\* tf.nn.embedding_lookup(W, dist): (rows, cols, C/h); W has 2*clip_k+2 rows,
\* row b of the code is W[b + 1] here
EmbeddingLookup(W, dist) ==
    [r \in 1..Len(dist) |-> [c \in 1..Len(dist[r]) |-> W[dist[r][c] + 1]]]

\* QaK_res[s][i][j] = Q_[s][i] . aK[i][j]
MatmulQaK(Q_, aK) ==
    [s \in 1..Len(Q_) |-> [i \in 1..Len(Q_[s]) |-> [j \in 1..Len(aK[i]) |->
        Dot(Q_[s][i], aK[i][j])]]]

\* outputs_aV[s][i][c] = sum_j outputs[s][i][j] * aV[i][j][c]
MatmulaV(outputs, aV) ==
    [s \in 1..Len(outputs) |-> [i \in 1..Len(outputs[s]) |->
        [c \in 1..Len(aV[1][1]) |->
            SumF([j \in 1..Len(aV[i]) |-> outputs[s][i][j] * aV[i][j][c]],
                 Len(aV[i]))]]]

\* tf.add of two tensors of one shape
AddT(A, B) ==
    [s \in 1..Len(A) |-> [i \in 1..Len(A[s]) |-> [j \in 1..Len(A[s][i]) |->
        A[s][i][j] + B[s][i][j]]]]

(***************************************************************************)
(* The graph's variable store.  A variable is a record                     *)
(*   [scope, name, k, shape]                                               *)
(* k = 0 for the variable first created under (scope, name); tf.Variable   *)
(* makes the name unique (WK, WK_1, ...), which is k = 1, 2, ...           *)
(* An accumulator [vars, created, used, ok] threads the store through the  *)
(* variable creations of one call.                                         *)
(***************************************************************************)
Param(scope, name, k, shape) ==
    [scope |-> scope, name |-> name, k |-> k, shape |-> shape]

HasVar(vs, scope, name) ==
    \E p \in vs : p.scope = scope /\ p.name = name /\ p.k = 0

TheVar(vs, scope, name) ==
    CHOOSE p \in vs : p.scope = scope /\ p.name = name /\ p.k = 0

CountVar(vs, scope, name) ==
    Cardinality({p \in vs : p.scope = scope /\ p.name = name})

StartAcc(vs) == [vars |-> vs, created |-> {}, used |-> {}, ok |-> TRUE]

\* tf.get_variable under tf.variable_scope(scope, reuse=reuse), as used by
\* tf.layers.dense and tf.layers.conv1d: with reuse the variable must exist
\* with the same shape, without reuse it must not exist.
GetVariable(acc, scope, reuse, name, shape) ==
    IF ~acc.ok THEN acc
    ELSE IF reuse
    THEN IF HasVar(acc.vars, scope, name)
            /\ TheVar(acc.vars, scope, name).shape = shape
         THEN [acc EXCEPT !.used = @ \cup {TheVar(acc.vars, scope, name)}]
         ELSE [acc EXCEPT !.ok = FALSE]
    ELSE IF HasVar(acc.vars, scope, name)
    THEN [acc EXCEPT !.ok = FALSE]
    ELSE [acc EXCEPT !.vars = @ \cup {Param(scope, name, 0, shape)},
                     !.created = @ \cup {Param(scope, name, 0, shape)},
                     !.used = @ \cup {Param(scope, name, 0, shape)}]

\* tf.Variable(...): always a new variable, whatever the scope's reuse flag
NewVariable(acc, scope, name, shape) ==
    IF ~acc.ok THEN acc
    ELSE LET p == Param(scope, name, CountVar(acc.vars, scope, name), shape)
         IN  [acc EXCEPT !.vars = @ \cup {p},
                         !.created = @ \cup {p},
                         !.used = @ \cup {p}]

\* the kernel and bias of one tf.layers.dense / tf.layers.conv1d layer
LayerVars(acc, scope, reuse, layer, cin, units) ==
    GetVariable(GetVariable(acc, scope, reuse, <<layer, "kernel">>, <<cin, units>>),
                scope, reuse, <<layer, "bias">>, <<units>>)

\* layer_norm lines 424-425: beta = tf.Variable(...), gamma = tf.Variable(...)
LayerNormVars(acc, scope, chans) ==
    NewVariable(NewVariable(acc, scope, <<"ln", "beta">>, <<chans>>),
                scope, <<"ln", "gamma">>, <<chans>>)

\* layer_norm called on its own: the variables sit directly in its scope
DirectLayerNormVars(acc, scope, chans) ==
    NewVariable(NewVariable(acc, scope, <<"beta">>, <<chans>>),
                scope, <<"gamma">>, <<chans>>)

\* the three projections Q, K, V of both multi-head blocks
ProjectionVars(acc, scope, reuse, Cq, Ck, units) ==
    LayerVars(LayerVars(LayerVars(acc, scope, reuse, "dense", Cq, units),
                        scope, reuse, "dense_1", Ck, units),
              scope, reuse, "dense_2", Ck, units)

\* WK and WV of relative_multihead_attention, lines 303 and 305
RelativeVars(acc, scope, clip_k, dh) ==
    NewVariable(NewVariable(acc, scope, <<"relative-pos-embeddings", "WK">>,
                            <<2 * clip_k + 2, dh>>),
                scope, <<"relative-pos-embeddings", "WV">>, <<2 * clip_k + 2, dh>>)

(***************************************************************************)
(* Results of a call.  A failed call (an exception while the graph is      *)
(* built) returns no tensor; the variables created before the failing      *)
(* line stay in the graph.                                                 *)
(***************************************************************************)
NoTensors ==
    [att_pre |-> <<>>, att |-> <<>>, key_masks |-> <<>>,
     query_masks |-> <<>>, scores |-> <<>>, Q_ |-> <<>>, ctx |-> <<>>,
     out |-> <<>>, out_shape |-> <<>>]

Failed(stage, acc, table, dist) ==
    [vars |-> acc.vars,
     ret |-> [status |-> "error", stage |-> stage, created |-> acc.created,
              used |-> acc.used, table |-> table, dist |-> dist,
              t |-> NoTensors]]

Returned(acc, table, dist, t) ==
    [vars |-> acc.vars,
     ret |-> [status |-> "ok", stage |-> "return", created |-> acc.created,
              used |-> acc.used, table |-> table, dist |-> dist, t |-> t]]

\* outputs += queries (outputs in units of one); the channel axis
\* broadcasts when one side has a single channel
Residual(out, queries, one) ==
    LET U == DimC(out)
        Cq == DimC(queries)
    IN  [n \in 1..DimN(out) |-> [i \in 1..DimT(out) |->
            [c \in 1..BroadcastDim(U, Cq) |->
                out[n][i][IF U = 1 THEN 1 ELSE c]
                    + queries[n][i][IF Cq = 1 THEN 1 ELSE c] * one]]]

(***************************************************************************)
(* Lines 196-241 of multihead_attention and lines 308-361 of               *)
(* relative_multihead_attention from the scores on: key masking, causal    *)
(* masking, softmax, query masking, dropout (rate 0: the identity),        *)
(* weighted sum (+ value bias), restore shape, residual.  The arithmetic   *)
(* of the closing layer_norm is not part of the model; its variables are.  *)
(* aV is <<>> for multihead_attention.                                     *)
(***************************************************************************)
AttendFrom(a, raw, Q_, V_, aV) ==
    LET h == a.num_heads
        Tq == DimT(a.queries)
        Tk == DimT(a.keys)
        dh == a.num_units \div h
        key_masks == KeyMasks(a.keys, h, Tq)
        masked == WhereMasked(key_masks, raw)
        causal == IF a.causality
                  THEN WhereMasked(TrilMasks(Len(raw), Tq, Tk), masked)
                  ELSE masked
        att_pre == Softmax(causal, dh)
        query_masks == QueryMasks(a.queries, a.keys, h)
        att == MulMasks(att_pre, query_masks)
        ctx == IF aV = <<>> THEN MatmulV(att, V_)
               ELSE AddT(MatmulV(att, V_), MatmulaV(att, aV))
        res == Residual(RestoreShape(ctx, h), a.queries, FixOne)
    IN  [att_pre |-> att_pre, att |-> att, key_masks |-> key_masks,
         query_masks |-> query_masks, scores |-> causal, Q_ |-> Q_, ctx |-> ctx,
         out |-> res, out_shape |-> <<DimN(res), DimT(res), DimC(res)>>]

Zeros(n) == [u \in 1..n |-> 0]

(***************************************************************************)
(* multihead_attention (lines 156-243).                                    *)
(***************************************************************************)
MultiheadAttention(a, vs) ==
    LET h == a.num_heads
        U == a.num_units
        Cq == DimC(a.queries)
        Ck == DimC(a.keys)
        acc1 == ProjectionVars(StartAcc(vs), a.scope, a.reuse, Cq, Ck, U)
        acc2 == LayerNormVars(acc1, a.scope, BroadcastDim(U, Cq))
        Q == Dense(a.queries, a.WQ, Zeros(U))
        K == Dense(a.keys, a.WK, Zeros(U))
        V == Dense(a.keys, a.WV, Zeros(U))
        Q_ == SplitHeads(Q, h)
        K_ == SplitHeads(K, h)
        V_ == SplitHeads(V, h)
    IN  IF ~acc1.ok THEN Failed("variable_scope", acc1, <<>>, <<>>)
        ELSE IF U % h # 0 THEN Failed("split", acc1, <<>>, <<>>)
        ELSE IF ~BroadcastOk(U, Cq) THEN Failed("residual", acc1, <<>>, <<>>)
        ELSE Returned(acc2, <<>>, <<>>,
                      AttendFrom(a, MatmulQK(Q_, K_), Q_, V_, <<>>))

(***************************************************************************)
(* relative_multihead_attention (lines 246-363).  With T_q # T_k the       *)
(* (T_q, T_q) bias does not fit the (T_q, T_k) scores: tf.add fails unless *)
(* one length is 1, and then the key-mask tf.where (T_k = 1) or the        *)
(* value-bias matmul (T_q = 1) fails.                                      *)
(***************************************************************************)
RelativeMultiheadAttention(a, vs) ==
    LET h == a.num_heads
        U == a.num_units
        Cq == DimC(a.queries)
        Ck == DimC(a.keys)
        Tq == DimT(a.queries)
        Tk == DimT(a.keys)
        dh == U \div h
        acc1 == ProjectionVars(StartAcc(vs), a.scope, a.reuse, Cq, Ck, U)
        acc2 == RelativeVars(acc1, a.scope, a.clip_k, dh)
        acc3 == LayerNormVars(acc2, a.scope, BroadcastDim(U, Cq))
        Q == Dense(a.queries, a.WQ, Zeros(U))
        K == Dense(a.keys, a.WK, Zeros(U))
        V == Dense(a.keys, a.WV, Zeros(U))
        Q_ == SplitHeads(Q, h)
        K_ == SplitHeads(K, h)
        V_ == SplitHeads(V, h)
        table == DistTable(a.clip_k, a.seq_len)
        dist == DistSlice(table, Tq, Tk)
        aK == EmbeddingLookup(a.relK, dist)
        aV == EmbeddingLookup(a.relV, dist)
        raw == AddT(MatmulQK(Q_, K_), MatmulQaK(Q_, aK))
    IN  IF ~acc1.ok THEN Failed("variable_scope", acc1, <<>>, <<>>)
        ELSE IF U % h # 0 THEN Failed("split", acc1, <<>>, <<>>)
        ELSE IF ~DistBaseOk(a.clip_k, a.seq_len)
        THEN Failed("dist", acc1, <<>>, <<>>)
        ELSE IF Len(dist) # Tq THEN Failed("QaK", acc2, table, dist)
        ELSE IF ~BroadcastOk(Tk, Len(dist[1]))
        THEN Failed("add", acc2, table, dist)
        ELSE IF Tk # Len(dist[1]) /\ Tk = 1
        THEN Failed("key_mask", acc2, table, dist)
        ELSE IF Tk # Len(dist[1]) THEN Failed("aV", acc2, table, dist)
        ELSE IF ~BroadcastOk(U, Cq) THEN Failed("residual", acc2, table, dist)
        ELSE Returned(acc3, table, dist, AttendFrom(a, raw, Q_, V_, aV))

(***************************************************************************)
(* feedforward (lines 366-399): conv1d + relu, conv1d, residual,           *)
(* layer_norm.  a.queries holds the inputs, a.inner is num_units[0] and    *)
(* a.num_units is num_units[1]; a.WQ and a.WK hold the two kernels.        *)
(***************************************************************************)
Feedforward(a, vs) ==
    LET C == DimC(a.queries)
        acc1 == LayerVars(LayerVars(StartAcc(vs), a.scope, a.reuse,
                                    "conv1d", C, a.inner),
                          a.scope, a.reuse, "conv1d_1", a.inner, a.num_units)
        acc2 == LayerNormVars(acc1, a.scope, BroadcastDim(a.num_units, C))
        inner == Dense(a.queries, a.WQ, Zeros(a.inner))
        outputs == Conv1(inner, a.WK, Zeros(a.num_units))
        res == Residual(outputs, a.queries, 1)
    IN  IF ~acc1.ok THEN Failed("variable_scope", acc1, <<>>, <<>>)
        ELSE IF ~BroadcastOk(a.num_units, C)
        THEN Failed("residual", acc1, <<>>, <<>>)
        ELSE Returned(acc2, <<>>, <<>>,
                      [NoTensors EXCEPT
                          !.out = res,
                          !.out_shape = <<DimN(res), DimT(res), DimC(res)>>])

(***************************************************************************)
(* layer_norm (lines 402-429) called on its own.  The result has the shape *)
(* of the inputs; the arithmetic is not part of the model.                 *)
(***************************************************************************)
LayerNorm(a, vs) ==
    Returned(DirectLayerNormVars(StartAcc(vs), a.scope, DimC(a.queries)),
             <<>>, <<>>,
             [NoTensors EXCEPT
                 !.out_shape = <<DimN(a.queries), DimT(a.queries),
                                 DimC(a.queries)>>])

(***************************************************************************)
(* entity_attention (lines 104-127).  a.queries holds the inputs, a.WQ the *)
(* kernel of the projection, a.e1 and a.e2 the entity indices (0-based).   *)
(***************************************************************************)
\* faulty variant: every index pair names batch row 0
EntityIdxBad(e) == [b \in 1..Len(e) |-> <<0, e[b]>>]

\* tf.concat([expand_dims(range(shape(e)[0])), expand_dims(e)], -1)
EntityIdx(e) == [b \in 1..Len(e) |-> <<b - 1, e[b]>>]

\* tf.gather_nd(attn, idx): row b is attn[idx[b][0], idx[b][1]]
GatherNd(attn, idx) ==
    [b \in 1..Len(idx) |-> attn[idx[b][1] + 1][idx[b][2] + 1]]

\* e = concat([expand_dims(e1_h), expand_dims(e2_h)], -1): (B, A, 2)
EntityPair(e1_h, e2_h) ==
    [b \in 1..Len(e1_h) |-> [c \in 1..Len(e1_h[b]) |-> <<e1_h[b][c], e2_h[b][c]>>]]

\* ve = tf.matmul(attn, e): (B, T, 2)
MatmulVe(attn, e) ==
    [b \in 1..Len(attn) |-> [t \in 1..Len(attn[b]) |-> [col \in 1..2 |->
        SumF([c \in 1..Len(e[b]) |-> attn[b][t][c] * e[b][c][col]], Len(e[b]))]]]

\* faulty variant: the softmax runs over the time axis, once per entity column
EntityAlphasOverTime(ve) ==
    [b \in 1..Len(ve) |-> [t \in 1..Len(ve[b]) |-> [col \in 1..2 |->
        SoftmaxRow([u \in 1..Len(ve[b]) |-> ve[b][u][col]], 1)[t]]]]

\* alphas = tf.nn.softmax(ve): over the last axis, the two entity columns
EntityAlphas(ve) == Softmax(ve, 1)

\* output = tf.matmul(alphas, tf.transpose(e, [0, 2, 1])): (B, T, A)
MatmulAlphasE(alphas, e) ==
    [b \in 1..Len(alphas) |-> [t \in 1..Len(alphas[b]) |-> [c \in 1..Len(e[b]) |->
        alphas[b][t][1] * e[b][c][1] + alphas[b][t][2] * e[b][c][2]]]]

EntityAttention(a, vs) ==
    LET A == a.attention_size
        acc1 == NewVariable(NewVariable(StartAcc(vs), "", <<"dense", "kernel">>,
                                        <<DimC(a.queries), A>>),
                            "", <<"dense", "bias">>, <<A>>)
        acc2 == DirectLayerNormVars(acc1, "ln", A)
        attn == Dense(a.queries, a.WQ, Zeros(A))
        e1_h == GatherNd(attn, EntityIdx(a.e1))
        e2_h == GatherNd(attn, EntityIdx(a.e2))
        e == EntityPair(e1_h, e2_h)
        ve == MatmulVe(attn, e)
        alphas == EntityAlphas(ve)
        output == MatmulAlphasE(alphas, e)
    IN  [vars |-> acc2.vars,
         ret |-> [status |-> "ok", stage |-> "return", created |-> acc2.created,
                  used |-> acc2.used, table |-> <<>>, dist |-> <<>>,
                  t |-> [attn |-> attn, e1_h |-> e1_h, e2_h |-> e2_h, ve |-> ve,
                         alphas |-> alphas, out |-> output]]]

(***************************************************************************)
(* latent_type_attention (lines 130-153).  a.queries holds the inputs,     *)
(* a.WQ the kernel of the projection, a.latentT the value of the latent    *)
(* type table, a.e1 and a.e2 the entity indices (0-based).                 *)
(***************************************************************************)
\* num_type=3, the default of latent_type_attention
NumType == 3

\* e_sim = tf.matmul(e_h, tf.transpose(latentT)): (B, num_type)
MatmulSim(e_h, latentT) ==
    [b \in 1..Len(e_h) |-> [k \in 1..Len(latentT) |-> Dot(e_h[b], latentT[k])]]

\* e_alphas = tf.nn.softmax(e_sim): over the last axis, the latent types
TypeAlphas(e_sim) == [b \in 1..Len(e_sim) |-> SoftmaxRow(e_sim[b], 1)]

\* e_type = tf.matmul(e_alphas, latentT): (B, latent_size)
MatmulType(e_alphas, latentT) ==
    [b \in 1..Len(e_alphas) |-> [c \in 1..Len(latentT[1]) |->
        SumF([k \in 1..Len(latentT) |-> e_alphas[b][k] * latentT[k][c]],
             Len(latentT))]]

LatentTypeAttention(a, vs) ==
    LET A == a.latent_size
        acc1 == LayerVars(StartAcc(vs), "", FALSE, "dense", DimC(a.queries), A)
        acc2 == GetVariable(acc1, "", FALSE, <<"latentT">>, <<a.num_type, A>>)
        attn == Dense(a.queries, a.WQ, Zeros(A))
        e1_h == GatherNd(attn, EntityIdx(a.e1))
        e2_h == GatherNd(attn, EntityIdx(a.e2))
        e1_alphas == TypeAlphas(MatmulSim(e1_h, a.latentT))
        e2_alphas == TypeAlphas(MatmulSim(e2_h, a.latentT))
    IN  IF ~acc2.ok
        THEN [vars |-> acc2.vars,
              ret |-> [status |-> "error", stage |-> "get_variable",
                       created |-> acc2.created, used |-> acc2.used,
                       table |-> <<>>, dist |-> <<>>, t |-> NoTensors]]
        ELSE [vars |-> acc2.vars,
              ret |-> [status |-> "ok", stage |-> "return",
                       created |-> acc2.created, used |-> acc2.used,
                       table |-> <<>>, dist |-> <<>>,
                       t |-> [attn |-> attn, e1_h |-> e1_h, e2_h |-> e2_h,
                              e1_alphas |-> e1_alphas, e2_alphas |-> e2_alphas,
                              e1_type |-> MatmulType(e1_alphas, a.latentT),
                              e2_type |-> MatmulType(e2_alphas, a.latentT)]]]

(***************************************************************************)
(* Inputs.  Position vectors: the all-zero padding vector, a non-zero      *)
(* vector whose channels sum to zero, and a vector with every channel set. *)
(***************************************************************************)
ZeroVec == [c \in 1..Chan |-> 0]
ZeroSumVec == [c \in 1..Chan |-> IF c = 1 THEN 1 ELSE IF c = Chan THEN -1 ELSE 0]
LiveVec == [c \in 1..Chan |-> c]
PosVecs == {ZeroVec, ZeroSumVec, LiveVec}

Tensors(N, T) == [1..N -> [1..T -> PosVecs]]

\* the keys of a call: the queries themselves (self-attention), or another
\* sequence of padding and live positions (cross-attention)
KeyTensors(q) ==
    {q} \cup UNION {[1..DimN(q) -> [1..Tk -> {ZeroVec, LiveVec}]] : Tk \in 1..MaxT}

\* sample values of the learned kernels
Eye(cin, units) == [c \in 1..cin |-> [u \in 1..units |-> IF c = u THEN 1 ELSE 0]]
Ones(cin, units) == [c \in 1..cin |-> [u \in 1..units |-> 1]]

\* sample values of the learned WK / WV tables: the signed clipped distance
RelSigned(clip_k, dh) ==
    [b \in 1..(2 * clip_k + 2) |-> [c \in 1..dh |-> (b - 1) - (clip_k + 1)]]

HeadCounts(units) == {h \in 1..units : units % h = 0}

NoRet ==
    [status |-> "none", stage |-> "none", created |-> {}, used |-> {},
     table |-> <<>>, dist |-> <<>>, t |-> NoTensors]

\* the arguments of one call of a multi-head block on a fresh graph
AttnCall(fn, q, k, h, cz, wq) ==
    [fn |-> fn, scope |-> "a", reuse |-> FALSE,
     queries |-> q, keys |-> k, num_units |-> Chan, num_heads |-> h,
     causality |-> cz, clip_k |-> 1, seq_len |-> MaxT + 1,
     WQ |-> wq, WK |-> Eye(Chan, Chan), WV |-> Eye(Chan, Chan),
     relK |-> RelSigned(1, Chan \div h), relV |-> RelSigned(1, Chan \div h)]

InitAttn ==
    /\ pc = "call"
    /\ \E N \in 1..MaxN, Tq \in 1..MaxT :
         \E q \in Tensors(N, Tq) :
           \E k \in KeyTensors(q), fn \in {"multihead", "relative"},
              h \in HeadCounts(Chan), cz \in BOOLEAN :
             args = AttnCall(fn, q, k, h, cz, Eye(Chan, Chan))
    /\ ret = NoRet
    /\ store = {}
    /\ calls = 1

(***************************************************************************)
(* Actions: one per block of attention.py.                                 *)
(***************************************************************************)
multihead_attention ==
    /\ pc = "call"
    /\ args.fn = "multihead"
    /\ LET r == MultiheadAttention(args, store)
       IN  ret' = r.ret /\ store' = r.vars
    /\ pc' = "done"
    /\ UNCHANGED <<args, calls>>

relative_multihead_attention ==
    /\ pc = "call"
    /\ args.fn = "relative"
    /\ LET r == RelativeMultiheadAttention(args, store)
       IN  ret' = r.ret /\ store' = r.vars
    /\ pc' = "done"
    /\ UNCHANGED <<args, calls>>

feedforward ==
    /\ pc = "call"
    /\ args.fn = "feedforward"
    /\ LET r == Feedforward(args, store)
       IN  ret' = r.ret /\ store' = r.vars
    /\ pc' = "done"
    /\ UNCHANGED <<args, calls>>

layer_norm ==
    /\ pc = "call"
    /\ args.fn = "layer_norm"
    /\ LET r == LayerNorm(args, store)
       IN  ret' = r.ret /\ store' = r.vars
    /\ pc' = "done"
    /\ UNCHANGED <<args, calls>>

entity_attention ==
    /\ pc = "call"
    /\ args.fn = "entity"
    /\ LET r == EntityAttention(args, store)
       IN  ret' = r.ret /\ store' = r.vars
    /\ pc' = "done"
    /\ UNCHANGED <<args, calls>>

latent_type_attention ==
    /\ pc = "call"
    /\ args.fn = "latent"
    /\ LET r == LatentTypeAttention(args, store)
       IN  ret' = r.ret /\ store' = r.vars
    /\ pc' = "done"
    /\ UNCHANGED <<args, calls>>

NextAttn == multihead_attention \/ relative_multihead_attention

SpecAttn == InitAttn /\ [][NextAttn]_vars

(***************************************************************************)
(* The table construction over a range of (clip_k, seq_len): calls of      *)
(* relative_multihead_attention on one sentence of live positions.         *)
(***************************************************************************)
LiveTensor(T) == <<[t \in 1..T |-> LiveVec]>>

TableCall(clip_k, seq_len, Tq, Tk) ==
    [fn |-> "relative", scope |-> "a", reuse |-> FALSE,
     queries |-> LiveTensor(Tq), keys |-> LiveTensor(Tk),
     num_units |-> Chan, num_heads |-> 1, causality |-> FALSE,
     clip_k |-> clip_k, seq_len |-> seq_len,
     WQ |-> Eye(Chan, Chan), WK |-> Eye(Chan, Chan), WV |-> Eye(Chan, Chan),
     relK |-> RelSigned(clip_k, Chan), relV |-> RelSigned(clip_k, Chan)]

InitDist ==
    /\ pc = "call"
    /\ \E clip_k \in 0..MaxClip, seq_len \in 1..MaxSeqLen :
         \E Tq \in 1..seq_len, Tk \in 1..seq_len :
           args = TableCall(clip_k, seq_len, Tq, Tk)
    /\ ret = NoRet
    /\ store = {}
    /\ calls = 1

NextDist == relative_multihead_attention

SpecDist == InitDist /\ [][NextDist]_vars

(***************************************************************************)
(* Calls of the named-scope blocks on one graph: the caller picks the      *)
(* block, the scope name, the reuse flag and the channel counts.           *)
(***************************************************************************)
OnesTensor(C) == <<<<[c \in 1..C |-> 1]>>>>
Scopes == {"a", "b"}
InnerUnits == 2

GraphCall(fn, scope, reuse, C, U) ==
    [fn |-> fn, scope |-> scope, reuse |-> reuse,
     queries |-> OnesTensor(C), keys |-> OnesTensor(C),
     num_units |-> U, num_heads |-> 1, causality |-> FALSE,
     clip_k |-> 0, seq_len |-> 1, inner |-> InnerUnits,
     WQ |-> Ones(C, IF fn = "feedforward" THEN InnerUnits ELSE U),
     WK |-> Ones(IF fn = "feedforward" THEN InnerUnits ELSE C, U),
     WV |-> Ones(C, U),
     relK |-> RelSigned(0, U), relV |-> RelSigned(0, U)]

GraphArgs ==
    {GraphCall(fn, scope, reuse, C, U) :
        fn \in {"multihead", "relative", "feedforward"}, scope \in Scopes,
        reuse \in BOOLEAN, C \in 1..MaxChan, U \in 1..MaxChan}
    \cup {GraphCall("layer_norm", scope, reuse, C, C) :
        scope \in Scopes, reuse \in BOOLEAN, C \in 1..MaxChan}

InitGraph ==
    /\ pc = "call"
    /\ args \in GraphArgs
    /\ ret = NoRet
    /\ store = {}
    /\ calls = 1

\* the caller makes the next call on the same graph
Invoke ==
    /\ pc = "done"
    /\ calls < MaxCalls
    /\ args' \in GraphArgs
    /\ pc' = "call"
    /\ ret' = NoRet
    /\ calls' = calls + 1
    /\ UNCHANGED store

NextGraph ==
    \/ multihead_attention
    \/ relative_multihead_attention
    \/ feedforward
    \/ layer_norm
    \/ Invoke

SpecGraph == InitGraph /\ [][NextGraph]_vars

(***************************************************************************)
(* Calls of entity_attention and latent_type_attention.                    *)
(***************************************************************************)
EntityCall(x, e1, e2, w) ==
    [fn |-> "entity", queries |-> x, e1 |-> e1, e2 |-> e2,
     attention_size |-> Chan, WQ |-> w]

LatentCall(x, e1, e2, w) ==
    [fn |-> "latent", queries |-> x, e1 |-> e1, e2 |-> e2,
     num_type |-> NumType, latent_size |-> Chan, WQ |-> w,
     latentT |-> Eye(NumType, Chan)]

InitEntity ==
    /\ pc = "call"
    /\ \E N \in 1..MaxN, T \in 1..MaxT :
         \E x \in Tensors(N, T), e1 \in [1..N -> 0..(T - 1)],
            e2 \in [1..N -> 0..(T - 1)],
            w \in {Eye(Chan, Chan), Ones(Chan, Chan)} :
           \/ args = EntityCall(x, e1, e2, w)
           \/ args = LatentCall(x, e1, e2, w)
    /\ ret = NoRet
    /\ store = {}
    /\ calls = 1

NextEntity == entity_attention \/ latent_type_attention

SpecEntity == InitEntity /\ [][NextEntity]_vars

(***************************************************************************)
(* Vocabulary of the properties.                                           *)
(***************************************************************************)
IsAttn == args.fn \in {"multihead", "relative"}
Done == pc = "done"
Ok == pc = "done" /\ ret.status = "ok"

\* the batch element and the head (0-based) behind stacked index s = g*N + n
BatchOf(s) == ((s - 1) % DimN(args.queries)) + 1
Stacked == 1..(args.num_heads * DimN(args.queries))
QPos == 1..DimT(args.queries)
KPos == 1..DimT(args.keys)

\* a weight <= 1e-6
Tiny(w) == w <= 1

\* a row of weights sums to 1, up to the rounding of its entries
SumsToOne(row) == Abs(ReduceSum(row) - FixOne) <= Len(row)

AllZero(v) == \A c \in 1..Len(v) : v[c] = 0
KeyIsPad(n, j) == ReduceSum(args.keys[n][j]) = 0
QueryIsPad(n, i) == ReduceSum(args.queries[n][i]) = 0
AllKeysPad(n) == \A j \in KPos : KeyIsPad(n, j)

(***************************************************************************)
(* C1: in both multi-head blocks a key position whose input vector is      *)
(* all-zero has post-softmax weight <= 1e-6 from every query position in   *)
(* every head.  The code gives such keys weight 1/T_k in every row whose   *)
(* keys are all masked.                                                    *)
(***************************************************************************)
C1_PaddingKeyWeightTiny ==
    (Ok /\ IsAttn) =>
        \A s \in Stacked : \A i \in QPos : \A j \in KPos :
            AllZero(args.keys[BatchOf(s)][j])
                => Tiny(ret.t.att[s][i][j])

(***************************************************************************)
(* C2: with causality, the weight of (query i, key j) is <= 1e-6 for every *)
(* j > i, for every input.  The code spreads the row uniformly over all    *)
(* keys, future ones included, when the keys at positions <= i are all     *)
(* padding.                                                                *)
(***************************************************************************)
C2_FutureKeyWeightTiny ==
    (Ok /\ IsAttn /\ args.causality) =>
        \A s \in Stacked : \A i \in QPos : \A j \in KPos :
            j > i => Tiny(ret.t.att[s][i][j])

C10_QueryMasking ==
    (Ok /\ IsAttn) =>
        \A s \in Stacked : \A i \in QPos :
            IF QueryIsPad(BatchOf(s), i)
            THEN \A j \in KPos : ret.t.att[s][i][j] = 0
            ELSE ret.t.att[s][i] = ret.t.att_pre[s][i]

\* a relative call on two sentences and two heads in which a zero-sum,
\* non-zero query row was zeroed and a live query row was kept
C10_Witness ==
    /\ Ok /\ args.fn = "relative" /\ DimN(args.queries) = 2
    /\ args.num_heads = 2
    /\ \E s \in Stacked : \E i \in QPos :
         /\ args.queries[BatchOf(s)][i] = ZeroSumVec
         /\ \E j \in KPos : ret.t.att_pre[s][i][j] > 0
         /\ \A j \in KPos : ret.t.att[s][i][j] = 0
    /\ \E s \in Stacked : \E i \in QPos :
         /\ ~QueryIsPad(BatchOf(s), i)
         /\ \E j \in KPos : ret.t.att[s][i][j] > 0

(***************************************************************************)
(* The relative-distance table.                                            *)
(***************************************************************************)
TableBuilt == pc = "done" /\ args.fn = "relative" /\ ret.table # <<>>
Rows == 1..Len(ret.table)
Clamp(x, lo, hi) == IF x < lo THEN lo ELSE IF x > hi THEN hi ELSE x

(***************************************************************************)
(* C4: every same-position pair has the same bucket, whatever the position *)
(* and seq_len (it is clip_k + 1), and beyond distance clip_k a pair has   *)
(* the bucket of the pairs at distance exactly clip_k on the same side.    *)
(***************************************************************************)
C4_ZeroBucketAndSaturation ==
    TableBuilt =>
        /\ \A q \in Rows : ret.table[q][q] = args.clip_k + 1
        /\ \A q \in Rows : \A k \in Rows : \A q2 \in Rows : \A k2 \in Rows :
             /\ (k - q > args.clip_k /\ k2 - q2 = args.clip_k)
                    => ret.table[q][k] = ret.table[q2][k2]
             /\ (q - k > args.clip_k /\ q2 - k2 = args.clip_k)
                    => ret.table[q][k] = ret.table[q2][k2]

\* a table with clip_k >= 1 holding saturated pairs on both sides
C4_Witness ==
    /\ TableBuilt /\ args.clip_k >= 1
    /\ \E q \in Rows : \E k \in Rows : k - q > args.clip_k
    /\ \E q \in Rows : \E k \in Rows : q - k > args.clip_k
    /\ \E q \in Rows : \E k \in Rows : q # k /\ ret.table[q][k] # ret.table[q][q]

(***************************************************************************)
(* C5: the table has seq_len rows and seq_len columns, its entry at        *)
(* (q, k) is clamp(k - q, -clip_k, clip_k) + clip_k + 1, which lies in     *)
(* [0, 2*clip_k+1]: a valid row index of the (2*clip_k+2)-row WK and WV.   *)
(***************************************************************************)
C5_TableIsClippedShiftedDistance ==
    TableBuilt =>
        /\ Len(ret.table) = args.seq_len
        /\ \A q \in Rows :
             /\ Len(ret.table[q]) = args.seq_len
             /\ \A k \in Rows :
                  /\ ret.table[q][k]
                       = Clamp(k - q, -args.clip_k, args.clip_k) + args.clip_k + 1
                  /\ ret.table[q][k] \in 0..(2 * args.clip_k + 1)
                  /\ ret.table[q][k] + 1 \in 1..Len(args.relK)
                  /\ ret.table[q][k] + 1 \in 1..Len(args.relV)

\* a table with clip_k >= 2 longer than 2*clip_k+1 whose first row runs from
\* the zero bucket to the saturated one and whose last row starts saturated
C5_Witness ==
    /\ TableBuilt /\ args.clip_k >= 2 /\ args.seq_len > 2 * args.clip_k + 1
    /\ ret.table[1][1] = args.clip_k + 1
    /\ ret.table[1][args.seq_len] = 2 * args.clip_k + 1
    /\ ret.table[args.seq_len][1] = 1

(***************************************************************************)
(* C6: with T_q and T_k both <= seq_len, the table used for the key-bias   *)
(* and value-bias lookups is rows 0..T_q-1 and columns 0..T_k-1 of the     *)
(* full table, also when T_q differs from T_k.  The code cuts both axes at *)
(* T_q.                                                                    *)
(***************************************************************************)
C6_SlicedToQueryByKey ==
    (TableBuilt /\ DimT(args.queries) <= args.seq_len
                /\ DimT(args.keys) <= args.seq_len) =>
        ret.dist = [r \in QPos |-> [c \in KPos |-> ret.table[r][c]]]

(***************************************************************************)
(* entity_attention.                                                       *)
(***************************************************************************)
EntityOk == pc = "done" /\ args.fn = "entity" /\ ret.status = "ok"
Batch == 1..DimN(args.queries)
Times == 1..DimT(args.queries)

\* the alphas of entity column col of batch element b, over the time axis
ColumnOverTime(b, col) == [t \in Times |-> ret.t.alphas[b][t][col]]

(***************************************************************************)
(* C7: the (batch, time, 2) alphas are normalised over the time axis,      *)
(* separately for each of the two entity columns: for every batch element  *)
(* and column the alphas over all timesteps sum to 1.  (The statement as   *)
(* claimed: tf.nn.softmax runs over the last axis, the two columns.)       *)
(***************************************************************************)
C7_ColumnsSumToOneOverTime ==
    EntityOk =>
        \A b \in Batch : \A col \in 1..2 : SumsToOne(ColumnOverTime(b, col))

(***************************************************************************)
(* C7, amended: the alphas are normalised over the axis of the two entity  *)
(* columns, separately for each timestep: for every batch element and      *)
(* timestep the two alphas sum to 1.                                       *)
(***************************************************************************)
C7_ColumnsSumToOnePerTimestep ==
    EntityOk =>
        \A b \in Batch : \A t \in Times : SumsToOne(ret.t.alphas[b][t])

\* a call on two timesteps and two distinct entities in which both columns
\* carry weight at both timesteps and no column sums to 1 over time
C7_Witness ==
    /\ EntityOk /\ DimT(args.queries) = 2
    /\ \E b \in Batch :
         /\ args.e1[b] # args.e2[b]
         /\ \A t \in Times : \A col \in 1..2 : ret.t.alphas[b][t][col] > 0
         /\ ret.t.alphas[b][1] # ret.t.alphas[b][2]
         /\ \A col \in 1..2 : ~SumsToOne(ColumnOverTime(b, col))

(***************************************************************************)
(* C11: in entity_attention and latent_type_attention, for every batch     *)
(* element b and in-range entity indices, e1_h[b] is the projected vector  *)
(* attn[b, e1[b]] and e2_h[b] is attn[b, e2[b]]: the gather pairs each     *)
(* batch row with its own index and reads no other row or timestep.        *)
(***************************************************************************)
GatherOk == pc = "done" /\ args.fn \in {"entity", "latent"} /\ ret.status = "ok"

\* the projection of the inputs, computed from the arguments of the call
Projected == Dense(args.queries, args.WQ, Zeros(Len(args.WQ[1])))

C11_GatherPairsOwnRow ==
    GatherOk =>
        \A b \in Batch :
            /\ ret.t.e1_h[b] = Projected[b][args.e1[b] + 1]
            /\ ret.t.e2_h[b] = Projected[b][args.e2[b] + 1]

\* a call of latent_type_attention on two batch rows and two timesteps in which
\* the gathered vector differs from the one at the other timestep of the
\* same row and from the one at the same timestep of the other row
C11_Witness ==
    /\ GatherOk /\ args.fn = "latent"
    /\ DimN(args.queries) = 2 /\ DimT(args.queries) = 2
    /\ args.e1[1] # args.e1[2]
    /\ \A b \in Batch :
         /\ args.e1[b] # args.e2[b]
         /\ ret.t.e1_h[b] # Projected[b][args.e2[b] + 1]
         /\ ret.t.e1_h[b] # Projected[3 - b][args.e1[b] + 1]
         /\ ret.t.e2_h[b] # Projected[3 - b][args.e2[b] + 1]

(***************************************************************************)
(* C8: a block whose output channel count differs from the channel count   *)
(* of its residual input always fails and returns nothing: the multi-head  *)
(* blocks for num_units # query channels, feedforward for                  *)
(* num_units[1] # input channels, also when one of the two counts is 1.    *)
(* The code's += broadcasts a single channel.                              *)
(***************************************************************************)
C8_ChannelMismatchFails ==
    (Done /\ args.fn \in {"multihead", "relative", "feedforward"}
          /\ args.num_units # DimC(args.queries)) =>
        (ret.status = "error" /\ ret.t.out = <<>>)

(***************************************************************************)
(* C9: a call with a reuse request for an already-used scope name creates  *)
(* no parameter and uses only parameters the first call of the scope       *)
(* created; a call without a reuse request fails or uses only parameters   *)
(* it created.  The code creates WK, WV, beta and gamma with tf.Variable,  *)
(* which ignores the reuse flag.                                           *)
(***************************************************************************)
StoreBefore == store \ ret.created
ScopeUsedBefore == \E p \in StoreBefore : p.scope = args.scope
FirstParams == {p \in StoreBefore : p.scope = args.scope /\ p.k = 0}

C9_ReuseCreatesNothing ==
    (Done /\ args.fn \in {"multihead", "relative", "feedforward", "layer_norm"}) =>
        /\ (args.reuse /\ ScopeUsedBefore) =>
               (ret.created = {} /\ ret.used \subseteq FirstParams)
        /\ ~args.reuse =>
               (ret.status = "error" \/ ret.used \subseteq ret.created)

(***************************************************************************)
(* C12: head splitting and recombination are exact inverses and the masks  *)
(* stay aligned with them.  For batch element n (0-based) and head g,      *)
(* channel chunk g of the projected queries of n sits at stacked index     *)
(* g*N + n; the tiled key mask and query mask at stacked index s are those *)
(* of batch element s mod N; the restored output holds head g of batch n   *)
(* in channel block g of batch n; and recombine(split(X)) = X.             *)
(***************************************************************************)
Heads == 0..(args.num_heads - 1)
HeadWidth == args.num_units \div args.num_heads
HeadChans == 1..HeadWidth

\* the stacked index (1-based) of 1-based batch element n and 0-based head g
StackedAt(n, g) == g * DimN(args.queries) + n

\* Q before the split, computed from the arguments of the call
ProjectedQ == Dense(args.queries, args.WQ, Zeros(args.num_units))

C12_SplitRestoreAndMasksAligned ==
    (Ok /\ IsAttn) =>
        /\ Len(ret.t.Q_) = args.num_heads * DimN(args.queries)
        /\ \A n \in Batch : \A g \in Heads :
             /\ \A t \in QPos : \A c \in HeadChans :
                  /\ ret.t.Q_[StackedAt(n, g)][t][c]
                        = ProjectedQ[n][t][g * HeadWidth + c]
                  /\ ret.t.out[n][t][g * HeadWidth + c]
                        = ret.t.ctx[StackedAt(n, g)][t][c]
                          + args.queries[n][t][g * HeadWidth + c] * FixOne
             /\ \A i \in QPos : \A j \in KPos :
                  /\ ret.t.key_masks[StackedAt(n, g)][i][j]
                        = (IF KeyIsPad(n, j) THEN 0 ELSE 1)
                  /\ ret.t.query_masks[StackedAt(n, g)][i][j]
                        = (IF QueryIsPad(n, i) THEN 0 ELSE 1)
        /\ RestoreShape(ret.t.Q_, args.num_heads) = ProjectedQ

\* a call on two batch elements and two heads in which the four stacked
\* query chunks differ pairwise, the two batch elements differ in their key
\* mask and in their query mask, and the two heads of the first batch element
\* differ in their weighted sum
C12_Witness ==
    /\ Ok /\ IsAttn
    /\ DimN(args.queries) = 2 /\ args.num_heads = 2
    /\ \A s1 \in Stacked : \A s2 \in Stacked :
         s1 # s2 => ret.t.Q_[s1] # ret.t.Q_[s2]
    /\ ret.t.key_masks[StackedAt(1, 1)] # ret.t.key_masks[StackedAt(2, 1)]
    /\ ret.t.query_masks[StackedAt(1, 1)] # ret.t.query_masks[StackedAt(2, 1)]
    /\ ret.t.ctx[StackedAt(1, 0)] # ret.t.ctx[StackedAt(1, 1)]

(***************************************************************************)
(* C13: the relative-distance table of relative_multihead_attention is     *)
(* built only when seq_len >= 2*clip_k.  For every seq_len < 2*clip_k the  *)
(* assignment of the ramp 1..2*clip_k into the seq_len-long base row fails *)
(* and no table is produced; for every seq_len >= 2*clip_k (clip_k = 0     *)
(* included) the seq_len-row table is produced.                            *)
(***************************************************************************)
RelativeDone == pc = "done" /\ args.fn = "relative"
TableFailed == ret.status = "error" /\ ret.stage = "dist" /\ ret.table = <<>>

C13_TableBuiltIffLongEnough ==
    RelativeDone =>
        IF args.seq_len < 2 * args.clip_k
        THEN TableFailed
        ELSE /\ ret.stage # "dist"
             /\ Len(ret.table) = args.seq_len
             /\ \A r \in Rows : Len(ret.table[r]) = args.seq_len

\* a call whose row is one position too short for the ramp: the assignment
\* fails and no table is produced
C13_Witness ==
    /\ RelativeDone
    /\ args.clip_k >= 2
    /\ args.seq_len = 2 * args.clip_k - 1
    /\ TableFailed

====
